---- MODULE Spec2Model ----
(***************************************************************************)
(* Model of the binary point-cloud protocol of under-the-cloud:           *)
(* utils/weatherParser.js (parseWeatherBinary) decoding the buffer that    *)
(* the backend serves in the layout documented in the README.              *)
(*                                                                         *)
(* A buffer is a sequence of bytes (0..255); byte offset o of the          *)
(* ArrayBuffer is element o+1 of the sequence.  A float32 is the record    *)
(* [sign, exp, mant] of its IEEE-754 fields, so that reading and writing   *)
(* a float are real conversions between four bytes and a value.            *)
(***************************************************************************)
EXTENDS Integers, Sequences, FiniteSets, TLC

\* Largest sample count whose complete body is generated.
MaxCount == 2

\* Largest number of whole 4-byte words appended after a complete body.
MaxTrail == 1

\* The longest arrays passed to interleaveCoords and interleaveCoordsWithZ.
MaxPoints == 2

\* The number of tile columns vectorizeRadar requests.
MaxTilesX == 2

HEADER_SIZE == 8

BYTES_PER_ELEMENT == 4

Undefined == [kind |-> "undefined"]

Null == [kind |-> "null"]

(***************************************************************************)
(* IEEE-754 single precision, little-endian                                *)
(***************************************************************************)
F32(s, e, m) == [sign |-> s, exp |-> e, mant |-> m]

\* The four bytes at byte offset off.
Bytes4(buf, off) == <<buf[off + 1], buf[off + 2], buf[off + 3], buf[off + 4]>>

\* Mutant: the count is read in big-endian byte order.
GetUint32_BigEndian(buf, off) ==
    buf[off + 4] + 256 * buf[off + 3] + 65536 * buf[off + 2] + 16777216 * buf[off + 1]

\* DataView.prototype.getUint32(off, true)
GetUint32(buf, off) ==
    buf[off + 1] + 256 * buf[off + 2] + 65536 * buf[off + 3] + 16777216 * buf[off + 4]

\* DataView.prototype.getFloat32(off, true); also an element read of a
\* Float32Array on a little-endian platform.
GetFloat32(buf, off) ==
    F32(buf[off + 4] \div 128,
        (buf[off + 4] % 128) * 2 + (buf[off + 3] \div 128),
        (buf[off + 3] % 128) * 65536 + buf[off + 2] * 256 + buf[off + 1])

\* The range check of the DataView getters: size bytes at off lie in the view.
DataViewInBounds(len, off, size) == off + size <= len

\* Mutant: only the start of the view is checked against the buffer.
TypedArrayFits_OffsetOnly(len, byteOffset, length) ==
    /\ byteOffset % BYTES_PER_ELEMENT = 0
    /\ byteOffset <= len

\* Mutant: the view is made without its length, which needs a buffer of whole
\* elements.
TypedArrayFits_WholeWords(len, byteOffset, length) ==
    /\ byteOffset % BYTES_PER_ELEMENT = 0
    /\ len % BYTES_PER_ELEMENT = 0
    /\ byteOffset + length * BYTES_PER_ELEMENT <= len

\* The checks of new Float32Array(buffer, byteOffset, length).
TypedArrayFits(len, byteOffset, length) ==
    /\ byteOffset % BYTES_PER_ELEMENT = 0
    /\ byteOffset + length * BYTES_PER_ELEMENT <= len

\* A typed-array view aliases the buffer: it is an offset and a length.
Float32View(byteOffset, length) == [byteOffset |-> byteOffset, length |-> length]

\* view[i], 0 <= i < view.length.  A typed array reads its elements in the
\* byte order of the platform, little-endian on every platform the page runs
\* on.
ViewAt(buf, view, i) == GetFloat32(buf, view.byteOffset + BYTES_PER_ELEMENT * i)

\* The elements of a view, in index order.
ViewSeq(buf, view) == [i \in 1..view.length |-> ViewAt(buf, view, i - 1)]

IsNaN(f) == f.exp = 255 /\ f.mant # 0

IsZero(f) == f.exp = 0 /\ f.mant = 0

\* a < b on float32 values, as the JavaScript < operator computes it.
FloatLess(a, b) ==
    IF IsNaN(a) \/ IsNaN(b) THEN FALSE
    ELSE IF IsZero(a) /\ IsZero(b) THEN FALSE
    ELSE IF a.sign # b.sign THEN a.sign = 1
    ELSE IF a.sign = 0
         THEN a.exp < b.exp \/ (a.exp = b.exp /\ a.mant < b.mant)
         ELSE b.exp < a.exp \/ (a.exp = b.exp /\ b.mant < a.mant)

\* a <= b on float32 values.
FloatLeq(a, b) ==
    IF IsNaN(a) \/ IsNaN(b) THEN FALSE
    ELSE (a = b) \/ (IsZero(a) /\ IsZero(b)) \/ FloatLess(a, b)

(***************************************************************************)
(* JavaScript numbers: IEEE-754 double precision                           *)
(*                                                                         *)
(* A number is the record [sign, E, hi, lo] of its sign, its biased        *)
(* exponent and the high 23 and low 29 bits of its 52-bit fraction.        *)
(***************************************************************************)
Dbl(s, e, h, l) == [sign |-> s, E |-> e, hi |-> h, lo |-> l]

RECURSIVE Pow2(_)
\* 2 ^ n
Pow2(n) == IF n = 0 THEN 1 ELSE 2 * Pow2(n - 1)

\* The position of the highest bit of m > 0 that is set.
HighBit(m) == CHOOSE k \in 0..30 : Pow2(k) <= m /\ m < 2 * Pow2(k)

\* The number read from a Float32Array element: the conversion is exact.
ToDouble(f) ==
    IF f.exp = 255 THEN Dbl(f.sign, 2047, f.mant, 0)
    ELSE IF f.exp = 0
         THEN IF f.mant = 0 THEN Dbl(f.sign, 0, 0, 0)
              ELSE LET k == HighBit(f.mant)
                   IN  Dbl(f.sign, 874 + k, f.mant * Pow2(23 - k) - 8388608, 0)
    ELSE Dbl(f.sign, f.exp + 896, f.mant, 0)

IsDoubleNaN(d) == d.E = 2047 /\ (d.hi # 0 \/ d.lo # 0)

IsDoubleZero(d) == d.E = 0 /\ d.hi = 0 /\ d.lo = 0

\* |a| < |b|
MagnitudeLess(a, b) ==
    \/ a.E < b.E
    \/ a.E = b.E /\ a.hi < b.hi
    \/ a.E = b.E /\ a.hi = b.hi /\ a.lo < b.lo

\* a < b on numbers.
DoubleLess(a, b) ==
    IF IsDoubleNaN(a) \/ IsDoubleNaN(b) THEN FALSE
    ELSE IF IsDoubleZero(a) /\ IsDoubleZero(b) THEN FALSE
    ELSE IF a.sign # b.sign THEN a.sign = 1
    ELSE IF a.sign = 0 THEN MagnitudeLess(a, b) ELSE MagnitudeLess(b, a)

\* The number stored into a Float32Array element: d rounded to the nearest
\* float32, ties to even (Math.fround).
Fround(d) ==
    IF IsDoubleNaN(d) THEN F32(0, 255, 4194304)
    ELSE IF d.E = 2047 THEN F32(d.sign, 255, 0)
    ELSE IF d.E = 0 \/ d.E < 871 THEN F32(d.sign, 0, 0)
    ELSE IF d.E >= 897
         THEN \* a normal float32, unless rounding carries it to infinity
              LET up == d.lo > 268435456 \/ (d.lo = 268435456 /\ d.hi % 2 = 1)
                  m  == IF up THEN d.hi + 1 ELSE d.hi
                  e  == IF m = 8388608 THEN d.E - 896 + 1 ELSE d.E - 896
              IN  IF e >= 255 THEN F32(d.sign, 255, 0)
                  ELSE F32(d.sign, e, IF m = 8388608 THEN 0 ELSE m)
    ELSE \* a subnormal float32: the 24-bit significand shifted right by k
         LET k    == 897 - d.E
             full == 8388608 + d.hi
             q    == full \div Pow2(k)
             r    == full % Pow2(k)
             half == Pow2(k - 1)
             up   == r > half \/ (r = half /\ (d.lo > 0 \/ q % 2 = 1))
             m    == IF up THEN q + 1 ELSE q
         IN  IF m = 8388608 THEN F32(d.sign, 1, 0) ELSE F32(d.sign, 0, m)

(***************************************************************************)
(* The producer of the buffer (backend): the layout of the README          *)
(***************************************************************************)
\* The little-endian bytes of an unsigned 32-bit integer.
SetUint32(n) ==
    <<n % 256, (n \div 256) % 256, (n \div 65536) % 256, (n \div 16777216) % 256>>

\* The little-endian bytes of a float32.
SetFloat32(f) ==
    <<f.mant % 256,
      (f.mant \div 256) % 256,
      (f.exp % 2) * 128 + (f.mant \div 65536),
      f.sign * 128 + (f.exp \div 2)>>

RECURSIVE Flatten(_)
\* The concatenation of a sequence of byte sequences.
Flatten(ws) == IF ws = <<>> THEN <<>> ELSE Head(ws) \o Flatten(Tail(ws))

RECURSIVE MaxIntensity(_)
\* The maximum intensity of a sequence of samples, 0.0 if it is empty.
MaxIntensity(ss) ==
    IF ss = <<>> THEN F32(0, 0, 0)
    ELSE LET m == MaxIntensity(Tail(ss))
             v == Head(ss).val
         IN  IF Len(ss) = 1 \/ FloatLess(m, v) THEN v ELSE m

\* [ HEADER (8 Bytes) ] [ LATITUDES (N*4) ] [ LONGITUDES (N*4) ] [ VALUES (N*4) ]
Encode(ss) ==
    SetUint32(Len(ss)) \o SetFloat32(MaxIntensity(ss))
      \o Flatten([i \in 1..Len(ss) |-> SetFloat32(ss[i].lat)])
      \o Flatten([i \in 1..Len(ss) |-> SetFloat32(ss[i].lon)])
      \o Flatten([i \in 1..Len(ss) |-> SetFloat32(ss[i].val)])

(***************************************************************************)
(* The inputs of the model                                                 *)
(***************************************************************************)
\* -6.5 and 1.0
LatVals == {F32(1, 129, 5242880), F32(0, 127, 0)}

\* 105.5 and 2.0
LonVals == {F32(0, 133, 5439488), F32(0, 128, 0)}

\* 0.125, the two float32 values next to 0.2 (0.19999999 and 0.2 rounded to
\* float32, 0.20000000298) and 12.5
IntensityVals ==
    {F32(0, 124, 0), F32(0, 124, 5033164), F32(0, 124, 5033165), F32(0, 130, 4718592)}

Samples == [lat : LatVals, lon : LonVals, val : IntensityVals]

\* The sample sequences the backend encodes.
SampleSeqs == UNION {[1..n -> Samples] : n \in 0..MaxCount}

\* The count words of arbitrary buffers: 0..MaxCount+1, and 16777216, whose
\* bytes read in the wrong byte order give 1.
CountWords == {SetUint32(n) : n \in 0..(MaxCount + 1)} \cup {<<0, 0, 0, 1>>}

\* The maxVal words of arbitrary buffers: 0.0 and 1.0.
MaxValWords == {SetFloat32(F32(0, 0, 0)), SetFloat32(F32(0, 127, 0))}

\* The body words of arbitrary buffers: 1.0 and NaN.
BodyWords == {SetFloat32(F32(0, 127, 0)), SetFloat32(F32(0, 255, 4194304))}

\* The length in bytes of the longest arbitrary buffer: a header, the body of
\* MaxCount samples and MaxTrail more words.
MaxRawLength == HEADER_SIZE + BYTES_PER_ELEMENT * (3 * MaxCount + MaxTrail)

\* The number of freely chosen body words of an arbitrary buffer of n bytes
\* with count word cw: those of the declared body that n bytes reach; none
\* where the count word declares more than MaxCount samples.
FreeWords(n, cw) ==
    LET reached  == IF n <= HEADER_SIZE THEN 0
                    ELSE (n - HEADER_SIZE + BYTES_PER_ELEMENT - 1) \div BYTES_PER_ELEMENT
        declared == IF \E c \in 0..MaxCount : cw = SetUint32(c)
                    THEN 3 * (CHOOSE c \in 0..MaxCount : cw = SetUint32(c))
                    ELSE 0
    IN  IF reached < declared THEN reached ELSE declared

\* The k words after the freely chosen ones: -6.5, repeated.
TrailWords(k) == [i \in 1..k |-> SetFloat32(F32(1, 129, 5242880))]

\* The arbitrary buffer of n bytes with count word cw, maxVal word mw and
\* body words free: a prefix that may cut the header, the body or a word.
RawBuffer(cw, mw, free, n) ==
    SubSeq(cw \o mw \o Flatten(free)
             \o Flatten(TrailWords(3 * MaxCount + MaxTrail - Len(free))), 1, n)

(***************************************************************************)
(* parseWeatherBinary(url)                                                 *)
(***************************************************************************)
VARIABLES
    pc,        \* the statement parseWeatherBinary is at
    served,    \* what the backend encoded, Undefined for an arbitrary body
    response,  \* the body of the response of fetch, empty before it
    buffer,    \* const buffer, empty before its declaration
    count,     \* const count, 0 before its declaration
    maxVal,    \* const maxVal
    lats,      \* const lats
    lons,      \* const lons
    vals,      \* const vals
    outcome,   \* the promise parseWeatherBinary returned
    fetches,   \* the number of calls of fetch
    trace      \* the statements executed so far

\* CloudMap
VARIABLES
    lpc,        \* the statement load is at
    status,     \* const [status, setStatus]
    points,     \* const [points, setPoints]
    debugStats  \* const [debugStats, setDebugStats]

parser == <<pc, served, response, buffer, count, maxVal, lats, lons, vals,
            outcome, fetches, trace>>

cloudMap == <<lpc, status, points, debugStats>>

\* interleaveCoords and interleaveCoordsWithZ
VARIABLES
    called,      \* the function that was called, "none" before the call
    args,        \* the arguments of the call
    interleaved  \* the Float32Array the call returned, empty before the call

interleaver == <<called, args, interleaved>>

\* VectorRadarMap
VARIABLES
    rpc,        \* where init, the effect and vectorizeRadar are at
    timestamp,  \* const [timestamp, setTimestamp], 0 for null
    loading,    \* const [loading, setLoading]
    geojson,    \* const [geojson, setGeojson]
    tiles,      \* the tile requests: the state of each and the image it loaded
    canvas,     \* the alpha of the canvas, one value for each tile-sized cell
    imgData     \* const imgData, blank before its declaration

radarMap == <<rpc, timestamp, loading, geojson, tiles, canvas, imgData>>

vars == <<parser, cloudMap, interleaver, radarMap>>

locals == <<count, maxVal, lats, lons, vals>>

Pending == [state |-> "pending"]

\* return v in an async function
Fulfilled(v) == [state |-> "fulfilled", value |-> v]

\* Mutant: the exception is swallowed and null is returned.
Rejected_Swallowed(e) == [state |-> "fulfilled", value |-> Null]

\* an exception e leaving an async function
Rejected(e) == [state |-> "rejected", reason |-> e]

\* The exception of a failed fetch or body read.
NetworkError(at) == [name |-> "TypeError", at |-> at]

\* The exception of an out-of-range DataView read or typed-array view.
RangeError(at) == [name |-> "RangeError", at |-> at]

\* Mutant: the arrays are laid out as if their elements had 8 bytes.
BytesPerArray_Double(n) == n * 8

\* count * 4
BytesPerArray(n) == n * 4

\* The byte offsets of the two header fields.
COUNT_OFFSET == 0

\* Mutant: maxVal read at the offset of count.
MAXVAL_OFFSET_AtCount == COUNT_OFFSET

MAXVAL_OFFSET == 4

\* Mutant: count is tested before maxVal is read.
Statements_CountCheckFirst ==
    <<"fetch", "arrayBuffer", "getCount", "checkCount", "getMaxVal",
      "mapLats", "mapLons", "mapVals", "return">>

\* The statements of parseWeatherBinary, in program order.
Statements ==
    <<"fetch", "arrayBuffer", "getCount", "getMaxVal", "checkCount",
      "mapLats", "mapLons", "mapVals", "return">>

\* The statement that follows statement s in program order.
Following(s) ==
    LET i == CHOOSE j \in DOMAIN Statements : Statements[j] = s
    IN  Statements[i + 1]

\* Mutant: the test of count is missing.
CountIsZero_Never(c) == FALSE

\* count === 0
CountIsZero(c) == c = 0

\* Mutant: the latitudes and the intensities are returned under each other's
\* name.
ParseResult_Swapped(c, m, la, lo, va) ==
    [count |-> c, maxVal |-> m, lats |-> va, lons |-> lo, vals |-> la]

\* { count, maxVal, lats, lons, vals }
ParseResult(c, m, la, lo, va) ==
    [count |-> c, maxVal |-> m, lats |-> la, lons |-> lo, vals |-> va]

\* The state of the parser before parseWeatherBinary is called.
ParserInit ==
    /\ pc = "fetch"
    /\ served = Undefined
    /\ response = <<>>
    /\ buffer = <<>>
    /\ count = 0
    /\ maxVal = Undefined
    /\ lats = Undefined
    /\ lons = Undefined
    /\ vals = Undefined
    /\ outcome = Pending
    /\ fetches = 0
    /\ trace = <<>>

\* useState([]), useState("Initializing..."), useState(null)
CloudMapInit ==
    /\ lpc = "start"
    /\ status = [text |-> "Initializing..."]
    /\ points = <<>>
    /\ debugStats = Null

\* No component calls interleaveCoords or interleaveCoordsWithZ.
InterleaverInit ==
    /\ called = "none"
    /\ args = [lats |-> <<>>, lons |-> <<>>, count |-> 0, fixedAltitude |-> Dbl(0, 0, 0, 0)]
    /\ interleaved = <<>>

\* const tileBounds = { minX: 4, maxX: 10, minY: 10, maxY: 15 }, cut down to
\* MaxTilesX columns and two rows.
tileBounds == [minX |-> 4, maxX |-> 3 + MaxTilesX, minY |-> 10, maxY |-> 11]

tileW == 256

tilesX == tileBounds.maxX - tileBounds.minX + 1

tilesY == tileBounds.maxY - tileBounds.minY + 1

totalW == tilesX * tileW

totalH == tilesY * tileW

\* The tiles requested: the <<x, y>> of the two loops.
Tiles == (tileBounds.minX..tileBounds.maxX) \X (tileBounds.minY..tileBounds.maxY)

\* The tile-sized cells of the canvas, <<column, row>>.
Cells == (0..(tilesX - 1)) \X (0..(tilesY - 1))

\* A canvas is created transparent.
BlankCanvas == [c \in Cells |-> 0]

\* useState({ type: "FeatureCollection", features: [] }), useState(false),
\* useState(null); init() is called and awaits the metadata.
RadarInit ==
    /\ rpc = "init"
    /\ timestamp = 0
    /\ loading = FALSE
    /\ geojson = [type |-> "FeatureCollection", features |-> <<>>]
    /\ tiles = [t \in Tiles |-> [state |-> "none", alpha |-> 0]]
    /\ canvas = BlankCanvas
    /\ imgData = BlankCanvas

Init == ParserInit /\ CloudMapInit /\ InterleaverInit /\ RadarInit

\* await fetch(url): the backend answers with an encoded point cloud.
FetchEncoded ==
    /\ lpc = "await"
    /\ pc = "fetch"
    /\ \E ss \in SampleSeqs :
         /\ served' = [kind |-> "cloud", samples |-> ss]
         /\ response' = Encode(ss)
    /\ fetches' = fetches + 1
    /\ pc' = Following("fetch")
    /\ trace' = Append(trace, "fetch")
    /\ UNCHANGED <<buffer, locals, outcome>>
    /\ UNCHANGED <<cloudMap, interleaver, radarMap>>

\* await fetch(url): the response carries an arbitrary body.
FetchRaw ==
    /\ lpc = "await"
    /\ pc = "fetch"
    /\ \E n \in 0..MaxRawLength, cw \in CountWords, mw \in MaxValWords :
         \E free \in [1..FreeWords(n, cw) -> BodyWords] :
            response' = RawBuffer(cw, mw, free, n)
    /\ fetches' = fetches + 1
    /\ pc' = Following("fetch")
    /\ trace' = Append(trace, "fetch")
    /\ UNCHANGED <<served, buffer, locals, outcome>>
    /\ UNCHANGED <<cloudMap, interleaver, radarMap>>

\* await fetch(url): the request fails and fetch rejects.
FetchReject ==
    /\ lpc = "await"
    /\ pc = "fetch"
    /\ fetches' = fetches + 1
    /\ outcome' = Rejected(NetworkError("fetch"))
    /\ pc' = "done"
    /\ trace' = Append(trace, "fetch")
    /\ UNCHANGED <<served, response, buffer, locals>>
    /\ UNCHANGED <<cloudMap, interleaver, radarMap>>

\* await response.arrayBuffer(): the body is read.
ArrayBuffer ==
    /\ pc = "arrayBuffer"
    /\ buffer' = response
    /\ pc' = Following("arrayBuffer")
    /\ trace' = Append(trace, "arrayBuffer")
    /\ UNCHANGED <<served, response, locals, outcome, fetches>>
    /\ UNCHANGED <<cloudMap, interleaver, radarMap>>

\* await response.arrayBuffer(): reading the body fails.
ArrayBufferReject ==
    /\ pc = "arrayBuffer"
    /\ outcome' = Rejected(NetworkError("arrayBuffer"))
    /\ pc' = "done"
    /\ trace' = Append(trace, "arrayBuffer")
    /\ UNCHANGED <<served, response, buffer, locals, fetches>>
    /\ UNCHANGED <<cloudMap, interleaver, radarMap>>

\* const view = new DataView(buffer); const count = view.getUint32(0, true);
GetCount ==
    /\ pc = "getCount"
    /\ trace' = Append(trace, "getCount")
    /\ IF DataViewInBounds(Len(buffer), COUNT_OFFSET, 4)
       THEN /\ count' = GetUint32(buffer, COUNT_OFFSET)
            /\ pc' = Following("getCount")
            /\ UNCHANGED outcome
       ELSE /\ outcome' = Rejected(RangeError("getUint32"))
            /\ pc' = "done"
            /\ UNCHANGED count
    /\ UNCHANGED <<served, response, buffer, maxVal, lats, lons, vals, fetches>>
    /\ UNCHANGED <<cloudMap, interleaver, radarMap>>

\* const maxVal = view.getFloat32(4, true);
GetMaxVal ==
    /\ pc = "getMaxVal"
    /\ trace' = Append(trace, "getMaxVal")
    /\ IF DataViewInBounds(Len(buffer), MAXVAL_OFFSET, 4)
       THEN /\ maxVal' = GetFloat32(buffer, MAXVAL_OFFSET)
            /\ pc' = Following("getMaxVal")
            /\ UNCHANGED outcome
       ELSE /\ outcome' = Rejected(RangeError("getFloat32"))
            /\ pc' = "done"
            /\ UNCHANGED maxVal
    /\ UNCHANGED <<served, response, buffer, count, lats, lons, vals, fetches>>
    /\ UNCHANGED <<cloudMap, interleaver, radarMap>>

\* if (count === 0) return null;
CheckCount ==
    /\ pc = "checkCount"
    /\ trace' = Append(trace, "checkCount")
    /\ IF CountIsZero(count)
       THEN /\ outcome' = Fulfilled(Null)
            /\ pc' = "done"
       ELSE /\ pc' = Following("checkCount")
            /\ UNCHANGED outcome
    /\ UNCHANGED <<served, response, buffer, locals, fetches>>
    /\ UNCHANGED <<cloudMap, interleaver, radarMap>>

\* const lats = new Float32Array(buffer, HEADER_SIZE, count);
MapLats ==
    /\ pc = "mapLats"
    /\ trace' = Append(trace, "mapLats")
    /\ IF TypedArrayFits(Len(buffer), HEADER_SIZE, count)
       THEN /\ lats' = Float32View(HEADER_SIZE, count)
            /\ pc' = Following("mapLats")
            /\ UNCHANGED outcome
       ELSE /\ outcome' = Rejected(RangeError("lats"))
            /\ pc' = "done"
            /\ UNCHANGED lats
    /\ UNCHANGED <<served, response, buffer, count, maxVal, lons, vals, fetches>>
    /\ UNCHANGED <<cloudMap, interleaver, radarMap>>

\* const lons = new Float32Array(buffer, HEADER_SIZE + bytesPerArray, count);
MapLons ==
    /\ pc = "mapLons"
    /\ trace' = Append(trace, "mapLons")
    /\ IF TypedArrayFits(Len(buffer), HEADER_SIZE + BytesPerArray(count), count)
       THEN /\ lons' = Float32View(HEADER_SIZE + BytesPerArray(count), count)
            /\ pc' = Following("mapLons")
            /\ UNCHANGED outcome
       ELSE /\ outcome' = Rejected(RangeError("lons"))
            /\ pc' = "done"
            /\ UNCHANGED lons
    /\ UNCHANGED <<served, response, buffer, count, maxVal, lats, vals, fetches>>
    /\ UNCHANGED <<cloudMap, interleaver, radarMap>>

\* const vals = new Float32Array(buffer, HEADER_SIZE + bytesPerArray * 2, count);
MapVals ==
    /\ pc = "mapVals"
    /\ trace' = Append(trace, "mapVals")
    /\ IF TypedArrayFits(Len(buffer), HEADER_SIZE + BytesPerArray(count) * 2, count)
       THEN /\ vals' = Float32View(HEADER_SIZE + BytesPerArray(count) * 2, count)
            /\ pc' = Following("mapVals")
            /\ UNCHANGED outcome
       ELSE /\ outcome' = Rejected(RangeError("vals"))
            /\ pc' = "done"
            /\ UNCHANGED vals
    /\ UNCHANGED <<served, response, buffer, count, maxVal, lats, lons, fetches>>
    /\ UNCHANGED <<cloudMap, interleaver, radarMap>>

\* return { count, maxVal, lats, lons, vals };
Return ==
    /\ pc = "return"
    /\ trace' = Append(trace, "return")
    /\ outcome' = Fulfilled(ParseResult(count, maxVal, lats, lons, vals))
    /\ pc' = "done"
    /\ UNCHANGED <<served, response, buffer, locals, fetches>>
    /\ UNCHANGED <<cloudMap, interleaver, radarMap>>

(***************************************************************************)
(* CloudMap: load()                                                        *)
(***************************************************************************)
\* Mutant: the cut is at 0.25.
THRESHOLD_Quarter == Dbl(0, 1021, 0, 0)

\* 0.2
THRESHOLD == Dbl(0, 1020, 5033164, 429496730)

\* val < 0.2
BelowThreshold(val) == DoubleLess(val, THRESHOLD)

\* 15000 + (val * 300) for a val that came from a float32 and is not below
\* the threshold: the exact sum, whole + frac / 2^fracBits, which a double
\* holds without rounding; NaN and Infinity stay what they are.
Altitude(val) ==
    IF val.E = 2047 THEN val
    ELSE LET m == 75 * (8388608 + val.hi)
             s == 1044 - val.E
         IN  IF s >= 0
             THEN [whole |-> 15000 + (m \div Pow2(s)), frac |-> m % Pow2(s), fracBits |-> s]
             ELSE [whole |-> 15000 + m * Pow2(0 - s), frac |-> 0, fracBits |-> 0]

\* { position: [raw.lons[i], raw.lats[i], altitude], value: val }
Point(lon, lat, val) ==
    [position |-> <<lon, lat, Altitude(val)>>, value |-> val]

\* F(v) with v evaluated once, before the call: JavaScript passes values.
ByValue(F(_), v) == CHOOSE r \in {F(x) : x \in {v}} : TRUE

RECURSIVE LoadLoop(_, _, _, _, _)
\* for (let i = 0; i < raw.count; i++) { ... }: the points pushed and the
\* maxVal reached from index i on.
LoadLoop(buf, raw, i, simplePoints, mx) ==
    IF ~(i < raw.count) THEN [points |-> simplePoints, maxVal |-> mx]
    ELSE ByValue(LAMBDA val :
                   IF BelowThreshold(val)
                   THEN LoadLoop(buf, raw, i + 1, simplePoints, mx)
                   ELSE ByValue(LAMBDA pushed :
                                  LoadLoop(buf, raw, i + 1, pushed.points, pushed.maxVal),
                                [points |-> Append(simplePoints,
                                                   Point(ToDouble(ViewAt(buf, raw.lons, i)),
                                                         ToDouble(ViewAt(buf, raw.lats, i)),
                                                         val)),
                                 maxVal |-> IF DoubleLess(mx, val) THEN val ELSE mx]),
                 ToDouble(ViewAt(buf, raw.vals, i)))

\* maxVal.toFixed(2) for a maxVal that is 0 or came from a float32: the
\* digits before and after the decimal point, the nearest hundredth and the
\* larger one of two nearest.
ToFixed2(d) ==
    IF IsDoubleZero(d) THEN [whole |-> 0, cents |-> 0]
    ELSE LET m == 100 * (8388608 + d.hi)
             s == 1046 - d.E
             n == IF s > 31 THEN 0
                  ELSE IF s = 31 THEN (IF m >= 1073741824 THEN 1 ELSE 0)
                  ELSE IF s <= 0 THEN m * Pow2(0 - s)
                  ELSE (m \div Pow2(s)) + (IF 2 * (m % Pow2(s)) >= Pow2(s) THEN 1 ELSE 0)
         IN  [whole |-> n \div 100, cents |-> n % 100]

RECURSIVE ToLocaleString(_)
\* raw.count.toLocaleString(): the digits in groups of three.
ToLocaleString(n) ==
    IF n < 1000 THEN <<n>> ELSE Append(ToLocaleString(n \div 1000), n % 1000)

\* e.message
Message(e) ==
    CASE e.name = "TypeError" -> "Failed to fetch"
      [] e.name = "RangeError" /\ e.at \in {"getUint32", "getFloat32"} ->
            "Offset is outside the bounds of the DataView"
      [] OTHER -> "Invalid typed array length"

\* Mutant: a failure is reported as an empty cloud.
ErrorStatus_NoData(e) == [text |-> "No Data Found"]

\* "Error: " + e.message
ErrorStatus(e) == [text |-> "Error: ", message |-> Message(e)]

\* raw && raw.count > 0
HasData(raw) == raw # Null /\ raw.count > 0

\* load() is called by the effect: setStatus("Fetching Data...") and the call
\* of parseWeatherBinary, up to its first await.
LoadStart ==
    /\ lpc = "start"
    /\ status' = [text |-> "Fetching Data..."]
    /\ lpc' = "await"
    /\ UNCHANGED <<parser, points, debugStats, interleaver, radarMap>>

\* const raw = await parseWeatherBinary(url) returns: the rest of the try
\* block.
LoadFulfilled ==
    /\ lpc = "await"
    /\ outcome.state = "fulfilled"
    /\ IF HasData(outcome.value)
       THEN \E loop \in {LoadLoop(buffer, outcome.value, 0, <<>>, Dbl(0, 0, 0, 0))} :
                /\ status' = [text |-> "Loaded",
                              count |-> ToLocaleString(outcome.value.count)]
                /\ debugStats' = [count |-> Len(loop.points),
                                  peak |-> ToFixed2(loop.maxVal)]
                /\ points' = loop.points
       ELSE /\ status' = [text |-> "No Data Found"]
            /\ UNCHANGED <<points, debugStats>>
    /\ lpc' = "done"
    /\ UNCHANGED <<parser, interleaver, radarMap>>

\* await parseWeatherBinary(url) throws: catch (e) { setStatus(...) }
LoadCatch ==
    /\ lpc = "await"
    /\ outcome.state = "rejected"
    /\ status' = ErrorStatus(outcome.reason)
    /\ lpc' = "done"
    /\ UNCHANGED <<parser, points, debugStats, interleaver, radarMap>>

(***************************************************************************)
(* interleaveCoords and interleaveCoordsWithZ                              *)
(***************************************************************************)
\* 105.5 and -6.5, which a float32 holds, and -6.6, which it does not
CoordNumbers ==
    {Dbl(0, 1029, 5439488, 0), Dbl(1, 1025, 5242880, 0), Dbl(1, 1025, 5452595, 107374182)}

\* 15000, which a float32 holds, and 0.1, which it does not
Altitudes == {Dbl(0, 1036, 6971392, 0), Dbl(0, 1019, 5033164, 429496730)}

\* The calls: two arrays of n numbers, n up to MaxPoints, a count up to n + 1
\* and an altitude.
InterleaveArgs ==
    UNION {[lats : [1..n -> CoordNumbers], lons : [1..n -> CoordNumbers],
            count : 0..(n + 1), fixedAltitude : Altitudes] : n \in 0..MaxPoints}

\* arr[i]: undefined past the end of the array.
ElementAt(arr, i) == IF i < Len(arr) THEN arr[i + 1] ELSE Undefined

\* The number a value converts to: NaN for undefined.
ToNumber(v) == IF v = Undefined THEN Dbl(0, 2047, 4194304, 0) ELSE v

\* new Float32Array(length): the elements are 0.
NewFloat32Array(length) == [k \in 1..length |-> F32(0, 0, 0)]

\* typed[k] = v on a Float32Array: the number is rounded to float32; a store
\* past the end does nothing.
SetElement(typed, k, v) ==
    IF k < Len(typed) THEN [typed EXCEPT ![k + 1] = Fround(ToNumber(v))] ELSE typed

RECURSIVE InterleaveLoop(_, _, _, _, _)
\* for (let i = 0; i < count; i++) { ... } of interleaveCoords, from index i on
InterleaveLoop(latitudes, longitudes, cnt, i, typed) ==
    IF ~(i < cnt) THEN typed
    ELSE InterleaveLoop(latitudes, longitudes, cnt, i + 1,
                        SetElement(SetElement(typed, i * 2, ElementAt(longitudes, i)),
                                   i * 2 + 1, ElementAt(latitudes, i)))

\* Mutant: latitude first.
interleaveCoords_LatFirst(latitudes, longitudes, cnt) ==
    InterleaveLoop(longitudes, latitudes, cnt, 0, NewFloat32Array(cnt * 2))

interleaveCoords(latitudes, longitudes, cnt) ==
    InterleaveLoop(latitudes, longitudes, cnt, 0, NewFloat32Array(cnt * 2))

RECURSIVE InterleaveLoopWithZ(_, _, _, _, _, _)
\* for (let i = 0; i < count; i++) { ... } of interleaveCoordsWithZ, from
\* index i on
InterleaveLoopWithZ(latitudes, longitudes, cnt, fixedAltitude, i, typed) ==
    IF ~(i < cnt) THEN typed
    ELSE LET i3 == i * 3
         IN  InterleaveLoopWithZ(latitudes, longitudes, cnt, fixedAltitude, i + 1,
                 SetElement(SetElement(SetElement(typed, i3, ElementAt(longitudes, i)),
                                       i3 + 1, ElementAt(latitudes, i)),
                            i3 + 2, fixedAltitude))

interleaveCoordsWithZ(latitudes, longitudes, cnt, fixedAltitude) ==
    InterleaveLoopWithZ(latitudes, longitudes, cnt, fixedAltitude, 0, NewFloat32Array(cnt * 3))

\* The calls start from any arguments; the rest of the page is as constructed.
InterleaveInit ==
    /\ ParserInit
    /\ CloudMapInit
    /\ called = "none"
    /\ args \in InterleaveArgs
    /\ interleaved = <<>>
    /\ RadarInit

CallInterleaveCoords ==
    /\ called = "none"
    /\ called' = "interleaveCoords"
    /\ interleaved' = interleaveCoords(args.lats, args.lons, args.count)
    /\ UNCHANGED <<args, parser, cloudMap, radarMap>>

CallInterleaveCoordsWithZ ==
    /\ called = "none"
    /\ called' = "interleaveCoordsWithZ"
    /\ interleaved' = interleaveCoordsWithZ(args.lats, args.lons, args.count,
                                            args.fixedAltitude)
    /\ UNCHANGED <<args, parser, cloudMap, radarMap>>

InterleaveNext ==
    \/ CallInterleaveCoords
    \/ CallInterleaveCoordsWithZ

InterleaveSpec == InterleaveInit /\ [][InterleaveNext]_vars

(***************************************************************************)
(* VectorRadarMap                                                          *)
(***************************************************************************)
\* past[past.length - 1].time
Timestamps == {1766025000}

\* The alpha of the image of a tile: 64 (0.25 of 255) and 255.
Alphas == {64, 255}

\* Mutant: the offsets the wrong way round.
DrawOffset_Swapped(x, y) ==
    <<(y - tileBounds.minY) * tileW, (x - tileBounds.minX) * tileW>>

\* (x - minX) * tileW, (y - minY) * tileW
DrawOffset(x, y) ==
    <<(x - tileBounds.minX) * tileW, (y - tileBounds.minY) * tileW>>

\* ctx.drawImage(img, dx, dy) with a tile-sized image of one alpha: the image
\* is composited over the cell at the offset, and clipped away outside the
\* canvas.
DrawImage(cv, alpha, offset) ==
    IF /\ 0 <= offset[1] /\ offset[1] < totalW
       /\ 0 <= offset[2] /\ offset[2] < totalH
    THEN LET c == <<offset[1] \div tileW, offset[2] \div tileW>>
         IN  [cv EXCEPT ![c] = alpha + (cv[c] * (255 - alpha)) \div 255]
    ELSE cv

\* const thresholds = [0.1, 0.3, 0.5, 0.7], in tenths
thresholds == <<1, 3, 5, 7>>

\* grid[i / 4] = data[i + 3] / 255.0 at or above the threshold of t tenths
AtOrAboveLevel(alpha, t) == 10 * alpha >= t * 255

\* The features of the contours: one for each threshold, its level and the
\* cells of the region at or above the level.
Features(data) ==
    [k \in 1..Len(thresholds) |->
        [type |-> "Feature",
         properties |-> [level |-> thresholds[k]],
         geometry |-> [type |-> "MultiPolygon",
                       coordinates |-> {c \in Cells : AtOrAboveLevel(data[c], thresholds[k])}]]]

Settled(t) == tiles[t].state \in {"loaded", "errored"}

\* init(): the metadata names a latest radar frame, setTimestamp(...).
InitResolved ==
    /\ rpc = "init"
    /\ \E ts \in Timestamps : timestamp' = ts
    /\ rpc' = "effect"
    /\ UNCHANGED <<loading, geojson, tiles, canvas, imgData>>
    /\ UNCHANGED <<parser, cloudMap, interleaver>>

\* init(): the metadata has no radar frames, or fetching it failed.
InitWithoutRadar ==
    /\ rpc = "init"
    /\ rpc' = "idle"
    /\ UNCHANGED <<timestamp, loading, geojson, tiles, canvas, imgData>>
    /\ UNCHANGED <<parser, cloudMap, interleaver>>

\* The effect of [timestamp] calls vectorizeRadar(tileBounds, timestamp),
\* which runs to await Promise.all(promises).
VectorizeRadar ==
    /\ rpc = "effect"
    /\ timestamp # 0
    /\ loading' = TRUE
    /\ canvas' = BlankCanvas
    /\ tiles' = [t \in Tiles |-> [state |-> "pending", alpha |-> 0]]
    /\ rpc' = "await"
    /\ UNCHANGED <<timestamp, geojson, imgData>>
    /\ UNCHANGED <<parser, cloudMap, interleaver>>

\* img.onload of the tile x, y
TileLoad(x, y) ==
    /\ tiles[<<x, y>>].state = "pending"
    /\ \E alpha \in Alphas :
         /\ canvas' = DrawImage(canvas, alpha, DrawOffset(x, y))
         /\ tiles' = [tiles EXCEPT ![<<x, y>>] = [state |-> "loaded", alpha |-> alpha]]
    /\ UNCHANGED <<rpc, timestamp, loading, geojson, imgData>>
    /\ UNCHANGED <<parser, cloudMap, interleaver>>

\* img.onerror of the tile x, y
TileError(x, y) ==
    /\ tiles[<<x, y>>].state = "pending"
    /\ tiles' = [tiles EXCEPT ![<<x, y>>] = [state |-> "errored", alpha |-> 0]]
    /\ UNCHANGED <<rpc, timestamp, loading, geojson, canvas, imgData>>
    /\ UNCHANGED <<parser, cloudMap, interleaver>>

\* Promise.all(promises) is fulfilled: every promise is resolved.
AllPromises == \A t \in Tiles : Settled(t)

\* vectorizeRadar after await Promise.all(promises): the pixels are read, the
\* contours become features, setGeojson(...), setLoading(false).
AfterAll ==
    /\ rpc = "await"
    /\ AllPromises
    /\ imgData' = canvas
    /\ geojson' = [type |-> "FeatureCollection", features |-> Features(canvas)]
    /\ loading' = FALSE
    /\ rpc' = "done"
    /\ UNCHANGED <<timestamp, tiles, canvas>>
    /\ UNCHANGED <<parser, cloudMap, interleaver>>

RadarNext ==
    \/ InitResolved
    \/ InitWithoutRadar
    \/ VectorizeRadar
    \/ \E t \in Tiles : TileLoad(t[1], t[2])
    \/ \E t \in Tiles : TileError(t[1], t[2])
    \/ AfterAll

RadarSpec == Init /\ [][RadarNext]_vars

\* The continuation of vectorizeRadar is a job that the event loop runs once
\* the promise of Promise.all is fulfilled.
RadarLiveSpec == RadarSpec /\ WF_rpc(AfterAll)

Next ==
    \/ LoadStart
    \/ LoadFulfilled
    \/ LoadCatch
    \/ FetchEncoded
    \/ FetchRaw
    \/ FetchReject
    \/ ArrayBuffer
    \/ ArrayBufferReject
    \/ GetCount
    \/ GetMaxVal
    \/ CheckCount
    \/ MapLats
    \/ MapLons
    \/ MapVals
    \/ Return

Spec == Init /\ [][Next]_vars

\* Every step of the parser moves pc and every step of load moves lpc.
position == <<pc, lpc>>

\* The reaction to a settled promise is a job that the event loop runs.
LiveSpec == Spec /\ WF_position(LoadFulfilled) /\ WF_position(LoadCatch)

(***************************************************************************)
(* Properties                                                              *)
(***************************************************************************)
\* Statement s has been executed.
Executed(s) == \E i \in DOMAIN trace : trace[i] = s

\* parseWeatherBinary has settled its promise.
Done == pc = "done"

\* The body of the response has been received into buffer.
BufferRead == Executed("getCount")

\* The promise was rejected with exception name thrown at statement at.
RejectedWith(name, at) ==
    /\ outcome.state = "rejected"
    /\ outcome.reason = [name |-> name, at |-> at]

\* The promise was rejected by an out-of-range read of a header field.
TruncatedHeaderFailure ==
    /\ outcome.state = "rejected"
    /\ outcome.reason.name = "RangeError"
    /\ outcome.reason.at \in {"getUint32", "getFloat32"}

\* The promise was rejected by a typed-array view that does not fit the buffer.
TruncatedBodyFailure ==
    /\ outcome.state = "rejected"
    /\ outcome.reason.name = "RangeError"
    /\ outcome.reason.at \in {"lats", "lons", "vals"}

\* The promise was fulfilled with a { count, maxVal, lats, lons, vals } object.
Populated == outcome.state = "fulfilled" /\ outcome.value # Null

\* The promise was fulfilled with null.
EmptyOutcome == outcome.state = "fulfilled" /\ outcome.value = Null

FailureOutcome == outcome.state = "rejected"

\* The bytes the header of buf declares: 8 + 12 * count.
DeclaredLength(buf) == HEADER_SIZE + 3 * BYTES_PER_ELEMENT * GetUint32(buf, 0)

\* C2: decoding a buffer shorter than 8 bytes (0..7 bytes) fails with the
\* range error of a header read (the truncated-header condition) and no
\* result is returned.
C2_TruncatedHeader ==
    (Done /\ BufferRead /\ Len(buffer) < HEADER_SIZE) => TruncatedHeaderFailure

\* A buffer of 4..7 bytes whose count bytes are zero was rejected by the read
\* of maxVal.
C2_Witness ==
    /\ Done /\ BufferRead
    /\ Len(buffer) \in 4..7
    /\ GetUint32(buffer, 0) = 0
    /\ RejectedWith("RangeError", "getFloat32")

\* C3: decoding a buffer of at least 8 bytes whose header declares more
\* bytes (8 + 12 * count) than the buffer has fails with the range error of
\* one of the three array views (the truncated-body condition); a result
\* that is returned has views of exactly count elements inside the buffer.
C3_TruncatedBody ==
    /\ (Done /\ BufferRead /\ Len(buffer) >= HEADER_SIZE
          /\ DeclaredLength(buffer) > Len(buffer)) => TruncatedBodyFailure
    /\ (Done /\ Populated) =>
          \A v \in {outcome.value.lats, outcome.value.lons, outcome.value.vals} :
             /\ v.length = GetUint32(buffer, 0)
             /\ v.byteOffset + BYTES_PER_ELEMENT * v.length <= Len(buffer)

\* A buffer that holds the latitudes and longitudes its header declares but
\* not all the intensities was rejected by the third view.
C3_Witness ==
    /\ Done /\ BufferRead
    /\ Len(buffer) >= HEADER_SIZE
    /\ DeclaredLength(buffer) > Len(buffer)
    /\ Len(buffer) >= HEADER_SIZE + 2 * BYTES_PER_ELEMENT * GetUint32(buffer, 0)
    /\ RejectedWith("RangeError", "vals")

\* A buffer of at least 8 bytes whose header count is 0.
WellFormedEmpty(buf) == Len(buf) >= HEADER_SIZE /\ GetUint32(buf, 0) = 0

\* A buffer with a truncated header or a truncated body.
Malformed(buf) == Len(buf) < HEADER_SIZE \/ DeclaredLength(buf) > Len(buf)

\* C5: the outcome for a well-formed empty cloud and the outcome for a
\* malformed buffer are always distinguishable: a malformed buffer gives a
\* rejection, never the empty outcome, and an empty cloud gives the empty
\* outcome (null), never a rejection.
C5_EmptyDistinctFromMalformed ==
    (Done /\ BufferRead) =>
        /\ Malformed(buffer) => (FailureOutcome /\ ~EmptyOutcome)
        /\ WellFormedEmpty(buffer) => (EmptyOutcome /\ ~FailureOutcome)

\* An empty cloud, here with bytes after its header, was decoded to the
\* empty outcome.
C5_Witness ==
    /\ Done /\ BufferRead
    /\ WellFormedEmpty(buffer)
    /\ Len(buffer) > HEADER_SIZE
    /\ EmptyOutcome

\* C6: a successful decode with count = N > 0 returns three sequences of
\* exactly N elements, and lats[i], lons[i], vals[i] are the 32-bit words at
\* byte offsets 8+4i, 8+4N+4i and 8+8N+4i of the buffer.
C6_ParallelArrays ==
    (Done /\ Populated) =>
        LET r == outcome.value
            N == GetUint32(buffer, 0)
        IN  /\ N > 0
            /\ r.count = N
            /\ Len(ViewSeq(buffer, r.lats)) = N
            /\ Len(ViewSeq(buffer, r.lons)) = N
            /\ Len(ViewSeq(buffer, r.vals)) = N
            /\ \A i \in 0..(N - 1) :
                 /\ SetFloat32(ViewAt(buffer, r.lats, i)) = Bytes4(buffer, 8 + 4 * i)
                 /\ SetFloat32(ViewAt(buffer, r.lons, i)) = Bytes4(buffer, 8 + 4 * N + 4 * i)
                 /\ SetFloat32(ViewAt(buffer, r.vals, i)) = Bytes4(buffer, 8 + 8 * N + 4 * i)

\* A buffer of two samples whose six body words are not all equal was decoded.
C6_Witness ==
    /\ Done /\ Populated
    /\ outcome.value.count = 2
    /\ ViewSeq(buffer, outcome.value.lats) # ViewSeq(buffer, outcome.value.lons)
    /\ ViewSeq(buffer, outcome.value.lons) # ViewSeq(buffer, outcome.value.vals)

\* The backend encoded a sequence of samples and the decoder received it.
Encoded == Executed("getCount") /\ served.kind = "cloud"

\* The samples the backend encoded.
samples == served.samples

\* The i-th decoded sample of result r over buffer buf, 1 <= i <= r.count.
DecodedSample(buf, r, i) ==
    [lat |-> ViewAt(buf, r.lats, i - 1),
     lon |-> ViewAt(buf, r.lons, i - 1),
     val |-> ViewAt(buf, r.vals, i - 1)]

IntensitiesBounded ==
    \A i \in 0..(outcome.value.count - 1) :
        FloatLeq(ViewAt(buffer, outcome.value.vals, i), outcome.value.maxVal)

\* The maxValue field of buf (bytes 4..7) is >= every word of its block of
\* intensities (bytes 8+8N .. 8+12N).
HeaderBoundsIntensities(buf) ==
    LET N == GetUint32(buf, 0)
    IN  \A i \in 0..(N - 1) :
            FloatLeq(GetFloat32(buf, 8 + 8 * N + 4 * i), GetFloat32(buf, 4))

\* C7 as stated: every intensity of a returned result with count > 0 is <=
\* the returned maxVal, for any buffer the decoder accepts.
C7_MaxValueBound == (Done /\ Populated) => IntensitiesBounded

\* C7, amended: the decoder returns the maxValue field unchecked, so every
\* intensity of a returned result with count > 0 is <= the returned maxVal
\* when, and only when, the maxValue field of the buffer is >= every word of
\* its block of intensities.
C7_MaxValueBoundOfBoundedBuffers ==
    (Done /\ Populated) => (HeaderBoundsIntensities(buffer) <=> IntensitiesBounded)

\* A cloud whose maxValue field bounds its intensities, one of them strictly
\* smaller, was decoded.
C7_Witness ==
    /\ Done /\ Populated
    /\ HeaderBoundsIntensities(buffer)
    /\ outcome.value.count = 2
    /\ \E i \in 0..1 :
         FloatLess(ViewAt(buffer, outcome.value.vals, i), outcome.value.maxVal)

\* The result of decoding, computed from the bytes p of an exact-length
\* buffer by the layout alone.
LayoutResult(p) ==
    LET N == GetUint32(p, 0)
    IN  IF N = 0 THEN Null
        ELSE [count  |-> N,
              maxVal |-> GetFloat32(p, 4),
              lats   |-> [i \in 1..N |-> GetFloat32(p, 8 + 4 * (i - 1))],
              lons   |-> [i \in 1..N |-> GetFloat32(p, 8 + 4 * N + 4 * (i - 1))],
              vals   |-> [i \in 1..N |-> GetFloat32(p, 8 + 8 * N + 4 * (i - 1))]]

\* The returned value r with its views over buf read out.
ResultValues(buf, r) ==
    IF r = Null THEN Null
    ELSE [count  |-> r.count,
          maxVal |-> r.maxVal,
          lats   |-> ViewSeq(buf, r.lats),
          lons   |-> ViewSeq(buf, r.lons),
          vals   |-> ViewSeq(buf, r.vals)]

\* C8: a buffer of at least 8 + 12 * count bytes, with or without bytes after
\* them, is decoded, and to the values that its first 8 + 12 * count bytes
\* determine (so a buffer and its exact-length prefix decode alike); a
\* buffer is rejected only if it is shorter than its header requires.
C8_TrailingBytesIgnored ==
    /\ (Done /\ BufferRead /\ ~Malformed(buffer)) =>
          /\ outcome.state = "fulfilled"
          /\ ResultValues(buffer, outcome.value)
               = LayoutResult(SubSeq(buffer, 1, DeclaredLength(buffer)))
    /\ (Done /\ BufferRead /\ FailureOutcome) => Malformed(buffer)

\* A buffer with 5 bytes after the body of its non-empty cloud was decoded.
C8_Witness ==
    /\ Done /\ Populated
    /\ Len(buffer) = DeclaredLength(buffer) + 5

\* The decode failed: the request or the body read failed, or the buffer is
\* malformed.
DecodeFailed == Done /\ (~BufferRead \/ Malformed(buffer))

\* The exceptions parseWeatherBinary can throw.
Errors ==
    [name : {"TypeError"}, at : {"fetch", "arrayBuffer"}]
      \cup [name : {"RangeError"}, at : {"getUint32", "getFloat32", "lats", "lons", "vals"}]

\* C9: a failed decode is all-or-nothing: the caller receives a rejection
\* that carries the exception alone, never a value, whatever locals the
\* decode had already computed; and a rejection is all that a caller who
\* received a rejection got.
C9_AllOrNothing ==
    /\ DecodeFailed => (FailureOutcome /\ outcome.reason \in Errors)
    /\ FailureOutcome => DOMAIN outcome = {"state", "reason"}

\* The decode failed at the third view, after count, maxVal, lats and lons
\* had been computed.
C9_Witness ==
    /\ DecodeFailed
    /\ RejectedWith("RangeError", "vals")
    /\ count \in Nat /\ maxVal # Undefined /\ lats # Undefined /\ lons # Undefined

\* The order of a decode run.
DecodeOrder ==
    <<"fetch", "arrayBuffer", "getCount", "getMaxVal", "checkCount",
      "mapLats", "mapLons", "mapVals", "return">>

\* The statements that completed without throwing.
Succeeded ==
    IF Done /\ FailureOutcome THEN SubSeq(trace, 1, Len(trace) - 1) ELSE trace

\* The number of leading bytes of the buffer that statement s finds in range.
Extent(s) ==
    CASE s = "getCount" -> 4
      [] s = "getMaxVal" -> 8
      [] s = "mapLats" -> 8 + 4 * count
      [] s = "mapLons" -> 8 + 8 * count
      [] s = "mapVals" -> 8 + 12 * count
      [] OTHER -> 0

\* The number of leading bytes the run has validated so far.
Checked ==
    LET es == {Extent(Succeeded[i]) : i \in DOMAIN Succeeded} \cup {0}
    IN  CHOOSE e \in es : \A f \in es : f <= e

HeaderValidated == Checked >= HEADER_SIZE

BodyValidated == HeaderValidated /\ Checked >= HEADER_SIZE + 12 * count

\* C10: a decode run executes its statements in the order fetch, body read,
\* header reads, count test, views, return; count is tested only after the
\* header is validated (the buffer has 8 bytes), a result (empty or
\* populated) is produced only after the body is validated (the buffer has
\* 8 + 12 * count bytes), a run ends in exactly one of empty result,
\* populated result or failure, and fetch is called once, never again.
C10_DecodeOrder ==
    /\ trace = SubSeq(DecodeOrder, 1, Len(trace))
    /\ fetches = (IF pc = "fetch" THEN 0 ELSE 1)
    /\ Checked > 0 => Checked <= Len(buffer)
    /\ Executed("checkCount") => HeaderValidated
    /\ (outcome.state = "fulfilled") => BodyValidated
    /\ Done <=> outcome # Pending
    /\ Done =>
         \/ EmptyOutcome /\ count = 0 /\ trace[Len(trace)] = "checkCount"
         \/ Populated /\ outcome.value.count > 0 /\ trace[Len(trace)] = "return"
         \/ FailureOutcome /\ trace[Len(trace)] \notin {"checkCount", "return"}

\* A run went through every statement to a populated result with one fetch.
C10_Witness ==
    /\ Done /\ Populated
    /\ trace = DecodeOrder
    /\ fetches = 1
    /\ BodyValidated

(***************************************************************************)
(* CloudMap                                                                *)
(***************************************************************************)
\* load() has run to its end: the try block or the catch block completed.
LoadDone == lpc = "done"

\* While parseWeatherBinary has failed, load shows no result of a decode and
\* the state the map draws is the one from before the load.
FailureShown ==
    outcome.state = "rejected" =>
        /\ status.text \notin {"Loaded", "No Data Found"}
        /\ lpc = "done" => status = [text |-> "Error: ", message |-> Message(outcome.reason)]
        /\ lpc # "done" => lpc = "await" /\ ENABLED LoadCatch
        /\ points = <<>>
        /\ debugStats = Null

\* A step taken after the failure leaves points and debugStats alone and
\* does not leave an error status.
FailureKept ==
    outcome.state = "rejected" =>
        /\ points' = points
        /\ debugStats' = debugStats
        /\ status.text = "Error: " => status' = status

\* C11: when parseWeatherBinary fails (fetch rejection, truncated header or
\* truncated body), load catches the failure and runs to its end, the status
\* becomes an error status and stays one, points and debugStats keep the
\* values they had, and the status is never "Loaded" or "No Data Found".
C11_LoadFailure ==
    /\ []FailureShown
    /\ [][FailureKept]_position
    /\ (outcome.state = "rejected") ~> [](lpc = "done" /\ status.text = "Error: ")

\* A load whose decode failed on a truncated body ended with the error
\* status.
C11_Witness ==
    /\ TruncatedBodyFailure
    /\ lpc = "done"
    /\ status.text = "Error: "
    /\ points = <<>> /\ debugStats = Null

\* The real number a float32 holds is at least 1/5: with m the 24-bit
\* significand, m * 2^(exp - 150) >= 1/5, that is 5 * m >= 2^(150 - exp).
AtLeastFifth(f) ==
    /\ f.sign = 0
    /\ ~IsNaN(f)
    /\ f.exp > 0
    /\ \/ f.exp >= 150
       \/ 150 - f.exp <= 30 /\ 5 * (8388608 + f.mant) >= Pow2(150 - f.exp)

\* load() completed the branch of a result with count > 0.
LoadedData ==
    /\ lpc = "done"
    /\ outcome.state = "fulfilled"
    /\ outcome.value # Null
    /\ outcome.value.count > 0

\* The decoded samples, in index order.
DecodedSamples ==
    [i \in 1..outcome.value.count |-> DecodedSample(buffer, outcome.value, i)]

\* The point of a decoded sample: its longitude, its latitude and its
\* intensity, each the number the float32 holds.
IsPointOf(p, smp) ==
    /\ DOMAIN p = {"position", "value"}
    /\ Len(p.position) = 3
    /\ p.position[1] = ToDouble(smp.lon) /\ Fround(p.position[1]) = smp.lon
    /\ p.position[2] = ToDouble(smp.lat) /\ Fround(p.position[2]) = smp.lat
    /\ p.value = ToDouble(smp.val) /\ Fround(p.value) = smp.val

\* points holds the samples of kept, one point each, in their order, and the
\* rendered count is their number.
PointsAre(kept) ==
    /\ Len(points) = Len(kept)
    /\ \A k \in 1..Len(kept) : IsPointOf(points[k], kept[k])
    /\ debugStats # Null
    /\ debugStats.count = Len(kept)

\* C12 as stated: after a load with count > 0, points holds exactly the
\* decoded samples whose intensity is at or above 0.2, in their order and
\* with their lon, lat and value, and the rendered count is their number.
C12_ThresholdExclusion ==
    LoadedData =>
        PointsAre(SelectSeq(DecodedSamples, LAMBDA smp : AtLeastFifth(smp.val)))

\* C12: after a load with count > 0, points holds exactly the decoded samples
\* whose intensity is not below 0.2 (at or above 0.2, or NaN), in their
\* order and with their lon, lat and value; a sample below 0.2 leaves no
\* entry; the rendered count is the number of kept samples.
C12_NotBelowThresholdKept ==
    LoadedData =>
        /\ PointsAre(SelectSeq(DecodedSamples,
                               LAMBDA smp : IsNaN(smp.val) \/ AtLeastFifth(smp.val)))
        /\ \A k \in 1..Len(points) :
              IsDoubleNaN(points[k].value) \/ AtLeastFifth(Fround(points[k].value))

\* A load kept the sample at 0.2 rounded to float32 and dropped the float32
\* just below it.
C12_Witness ==
    /\ LoadedData
    /\ outcome.value.count = 2
    /\ DecodedSamples[1].val = F32(0, 124, 5033164)
    /\ DecodedSamples[2].val = F32(0, 124, 5033165)
    /\ Len(points) = 1
    /\ points[1].value = ToDouble(F32(0, 124, 5033165))
    /\ debugStats.count = 1

(***************************************************************************)
(* interleaveCoords and interleaveCoordsWithZ                              *)
(***************************************************************************)
\* The number a float32 element holds is the value v.
IsValue(f, v) == v # Undefined /\ ToDouble(f) = v

\* A float32 holds the number d of the inputs exactly.
Float32Holds(d) == d.lo = 0 /\ d.E >= 897 /\ d.E <= 1150

\* The element is the value v rounded to float32: v itself where a float32
\* holds it, NaN where there is no value.
IsRounded(f, v) ==
    /\ f = Fround(ToNumber(v))
    /\ v = Undefined => IsNaN(f)
    /\ (v # Undefined /\ Float32Holds(v)) => ToDouble(f) = v
    /\ (v # Undefined /\ ~Float32Holds(v)) => ToDouble(f) # v

\* The returned array has stride elements for each i < count: lons[i],
\* lats[i] and, with a stride of 3, fixedAltitude, each as Same(_, _) says.
Layout(Same(_, _), stride) ==
    /\ Len(interleaved) = stride * args.count
    /\ \A i \in 0..(args.count - 1) :
          /\ Same(interleaved[stride * i + 1], ElementAt(args.lons, i))
          /\ Same(interleaved[stride * i + 2], ElementAt(args.lats, i))
          /\ stride = 3 => Same(interleaved[stride * i + 3], args.fixedAltitude)

\* C13 as stated, for arrays that have count elements: interleaveCoords
\* returns 2 * count elements, element 2i lons[i] and element 2i+1 lats[i];
\* interleaveCoordsWithZ returns 3 * count elements, lons[i], lats[i] and
\* fixedAltitude.
C13_InterleavedValues ==
    args.count <= Len(args.lons) =>
        /\ called = "interleaveCoords" => Layout(IsValue, 2)
        /\ called = "interleaveCoordsWithZ" => Layout(IsValue, 3)

\* What a call returned.
InterleavedRounded ==
    /\ called = "interleaveCoords" => Layout(IsRounded, 2)
    /\ called = "interleaveCoordsWithZ" => Layout(IsRounded, 3)

\* C13: interleaveCoords returns 2 * count elements, element 2i lons[i] and
\* element 2i+1 lats[i], each rounded to float32; interleaveCoordsWithZ
\* returns 3 * count elements, lons[i], lats[i] and fixedAltitude, each
\* rounded to float32; an element whose lons[i] or lats[i] does not exist is
\* NaN; the calls leave lats and lons as they were.
C13_InterleavedRounded ==
    /\ []InterleavedRounded
    /\ [][args' = args]_called

\* interleaveCoordsWithZ returned -6.6, 105.5 and 0.1 as the float32 values
\* next to them for two points.
C13_Witness ==
    /\ called = "interleaveCoordsWithZ"
    /\ args.count = 2
    /\ Len(args.lons) = 2
    /\ args.lons[2] = Dbl(1, 1025, 5452595, 107374182)
    /\ args.fixedAltitude = Dbl(0, 1019, 5033164, 429496730)
    /\ interleaved[4] = F32(1, 129, 5452595)
    /\ interleaved[6] = F32(0, 123, 5033165)

(***************************************************************************)
(* VectorRadarMap                                                          *)
(***************************************************************************)
\* The cell of the canvas that belongs to the tile x, y.
CellOf(x, y) == <<x - tileBounds.minX, y - tileBounds.minY>>

\* The canvas that the outcomes of the tile requests determine: the image of
\* each loaded tile in the cell of the tile, every other cell blank.
CanvasOfTiles ==
    [c \in Cells |->
        LET t == <<c[1] + tileBounds.minX, c[2] + tileBounds.minY>>
        IN  IF tiles[t].state = "loaded" THEN tiles[t].alpha ELSE 0]

\* Every tile request has settled, loaded or errored.
AllSettled == \A t \in Tiles : tiles[t].state \in {"loaded", "errored"}

\* The state of a run of vectorizeRadar at any moment.
RadarRun ==
    /\ rpc \in {"await", "done"} =>
          /\ canvas = CanvasOfTiles
          /\ \A t \in Tiles : tiles[t].state # "loaded" => canvas[CellOf(t[1], t[2])] = 0
    /\ rpc = "await" => loading
    /\ rpc = "done" =>
          /\ AllSettled
          /\ imgData = CanvasOfTiles
          /\ ~loading
          /\ Len(geojson.features) = 4
    /\ (rpc = "await" /\ AllSettled) => ENABLED AfterAll

\* A step that reads the pixels is taken with every tile request settled, and
\* loading is true from the start of the run until that step.
RadarStep ==
    /\ imgData' # imgData => AllSettled
    /\ (rpc # "done" /\ rpc' = "done") => (AllSettled /\ loading /\ ~loading')
    /\ (rpc = "effect" /\ rpc' # "effect") => loading'

\* C14: in vectorizeRadar, with tile requests that complete in any order and
\* of which any may fail, the pixels are read only after every tile request
\* has settled, a failed tile leaves its cell blank and does not stop the
\* run, each loaded tile is drawn into its own cell (x - minX, y - minY)
\* only, so that the canvas is determined by the outcomes of the requests and
\* not by their order, and loading, true from the start, is set to false
\* once all the tiles have settled.
C14_VectorizeRadar ==
    /\ []RadarRun
    /\ [][RadarStep]_rpc
    /\ (rpc = "await" /\ AllSettled) ~> [](rpc = "done" /\ ~loading)

\* A run ended with the first tile failed and the others loaded, with
\* different images on the two sides of the diagonal.
C14_Witness ==
    /\ rpc = "done"
    /\ ~loading
    /\ tiles[<<4, 10>>].state = "errored"
    /\ \A t \in Tiles \ {<<4, 10>>} : tiles[t].state = "loaded"
    /\ tiles[<<5, 10>>].alpha = 255
    /\ tiles[<<4, 11>>].alpha = 64
    /\ imgData[<<0, 0>>] = 0 /\ imgData[<<1, 0>>] = 255 /\ imgData[<<0, 1>>] = 64

====
